---- MODULE Spec2Model ----
(***************************************************************************)
(* Model of implode.py: the bundler that concatenates a directory of       *)
(* markdown fragments into one instruction file.                           *)
(*                                                                         *)
(* Text is modelled as a sequence of tokens.  "NL" is the newline          *)
(* character, "SP" a run of blanks, "---" the three dashes, "## T" a       *)
(* second-level header marker with its title ("## " followed by            *)
(* non-blank text) and "x" any other non-blank text.  A line is a maximal  *)
(* run of tokens other than "NL".                                          *)
(* File names, stems and section names are sequences of ASCII codes, so    *)
(* that sorting by name compares what Python's string comparison compares. *)
(***************************************************************************)
EXTENDS Naturals, Sequences, FiniteSets

VARIABLES input, mid, out, calls,
          mode, dir, keys, generalFile, outfile, opened, ordered, k, pc,
          printed, readlog

stripVars == <<input, mid, out, calls>>
bundleVars == <<mode, dir, keys, generalFile, outfile, opened, ordered, k, pc,
                printed, readlog>>
vars == <<input, mid, out, calls, mode, dir, keys, generalFile, outfile,
          opened, ordered, k, pc, printed, readlog>>

\* ------------------------------------------------------------------ bounds
\* Lines of a text handed to the strippers.
MaxLines == 4
\* Entries of the canonical sequence (SECTION_GLOBS.keys()).
MaxKeys == 2

\* ------------------------------------------------------------------- text
NL == "NL"
SP == "SP"
DASHES == "---"
HDR == "## T"
BODY == "x"

IsSpace(tok) == tok \in {NL, SP}

RECURSIVE splitlines(_)
\* str.splitlines(): a final newline ends the last line and starts no new one.
splitlines(text) ==
    IF text = <<>> THEN <<>>
    ELSE IF \E i \in 1..Len(text) : text[i] = NL
         THEN LET i == CHOOSE j \in 1..Len(text) :
                           /\ text[j] = NL
                           /\ \A h \in 1..(j - 1) : text[h] # NL
              IN  <<SubSeq(text, 1, i - 1)>>
                      \o splitlines(SubSeq(text, i + 1, Len(text)))
         ELSE <<text>>

RECURSIVE join(_)
\* '\n'.join(lines)
join(lines) ==
    IF lines = <<>> THEN <<>>
    ELSE IF Len(lines) = 1 THEN lines[1]
    ELSE lines[1] \o <<NL>> \o join(Tail(lines))

RECURSIVE lstripAll(_)
lstripAll(text) ==
    IF text # <<>> /\ IsSpace(Head(text)) THEN lstripAll(Tail(text)) ELSE text

RECURSIVE rstripAll(_)
rstripAll(text) ==
    IF text # <<>> /\ IsSpace(text[Len(text)])
    THEN rstripAll(SubSeq(text, 1, Len(text) - 1))
    ELSE text

\* str.strip()
strip(text) == rstripAll(lstripAll(text))

RECURSIVE lstripNL(_)
\* str.lstrip('\n')
lstripNL(text) ==
    IF text # <<>> /\ Head(text) = NL THEN lstripNL(Tail(text)) ELSE text

\* implode.py, strip_yaml_frontmatter without the lstrip('\n') of its result.
strip_yaml_frontmatter_nolstrip(text) ==
    LET lines == splitlines(text)
    IN  IF /\ lines # <<>>
           /\ strip(lines[1]) = <<DASHES>>
           /\ \E i \in 2..Len(lines) : strip(lines[i]) = <<DASHES>>
        THEN LET i == CHOOSE j \in 2..Len(lines) :
                          /\ strip(lines[j]) = <<DASHES>>
                          /\ \A h \in 2..(j - 1) : strip(lines[h]) # <<DASHES>>
             IN  join(SubSeq(lines, i + 1, Len(lines)))
        ELSE text

strip_yaml_frontmatter(text) ==
    LET lines == splitlines(text)
    IN  IF /\ lines # <<>>
           /\ strip(lines[1]) = <<DASHES>>
           /\ \E i \in 2..Len(lines) : strip(lines[i]) = <<DASHES>>
        THEN LET i == CHOOSE j \in 2..Len(lines) :
                          /\ strip(lines[j]) = <<DASHES>>
                          /\ \A h \in 2..(j - 1) : strip(lines[h]) # <<DASHES>>
             IN  lstripNL(join(SubSeq(lines, i + 1, Len(lines))))
        ELSE text

RECURSIVE dropBlankLines(_)
\* while remaining_lines and not remaining_lines[0].strip(): drop the first
dropBlankLines(lines) ==
    IF lines # <<>> /\ strip(lines[1]) = <<>>
    THEN dropBlankLines(Tail(lines))
    ELSE lines

\* startswith('## ')
StartsWithHeader(line) == line # <<>> /\ line[1] = HDR

\* strip_header looking for the header on the first non-blank line.
strip_header_first_nonblank(text) ==
    LET lines == dropBlankLines(splitlines(text))
    IN  IF lines # <<>> /\ StartsWithHeader(lines[1])
        THEN join(dropBlankLines(Tail(lines)))
        ELSE text

\* strip_header returning the re-joined lines when there is no header.
strip_header_rejoin(text) ==
    LET lines == splitlines(text)
    IN  IF lines # <<>> /\ StartsWithHeader(lines[1])
        THEN join(dropBlankLines(Tail(lines)))
        ELSE join(lines)

strip_header(text) ==
    LET lines == splitlines(text)
    IN  IF lines # <<>> /\ StartsWithHeader(lines[1])
        THEN join(dropBlankLines(Tail(lines)))
        ELSE text

\* ------------------------------------------------- the strippers' inputs
LineForms == { <<>>, <<SP>>, <<DASHES>>, <<DASHES, SP>>, <<HDR>>, <<BODY>>,
               <<SP, HDR>> }

LineSeqs == UNION { [1..n -> LineForms] : n \in 0..MaxLines }

Texts == { join(ls) : ls \in LineSeqs } \cup { join(ls) \o <<NL>> : ls \in LineSeqs }

\* --------------------------------------------- the strippers, applied alone
\* The bundler's variables while only the strippers are exercised.
BundlerIdle ==
    /\ mode = "none"
    /\ dir = {}
    /\ keys = <<>>
    /\ generalFile = FALSE
    /\ outfile = <<>>
    /\ opened = FALSE
    /\ ordered = <<>>
    /\ k = 0
    /\ pc = "idle"
    /\ printed = FALSE
    /\ readlog = <<>>

InitStrip ==
    /\ input \in Texts
    /\ mid = <<>>
    /\ out = <<>>
    /\ calls = <<>>
    /\ BundlerIdle

\* strip_yaml_frontmatter on the text, or on its own result.
CallStripYaml ==
    /\ pc = "idle"
    /\ calls \in {<<>>, <<"yaml">>}
    /\ calls' = Append(calls, "yaml")
    /\ mid' = IF calls = <<>> THEN strip_yaml_frontmatter(input) ELSE mid
    /\ out' = IF calls = <<>> THEN strip_yaml_frontmatter(input)
                              ELSE strip_yaml_frontmatter(mid)
    /\ UNCHANGED <<input, bundleVars>>

\* strip_header on the text, on its own result, or on the result of
\* strip_yaml_frontmatter (the order of bundle_cursor_rules).
CallStripHeader ==
    /\ pc = "idle"
    /\ Len(calls) < 2
    /\ calls' = Append(calls, "header")
    /\ mid' = IF calls = <<>> THEN strip_header(input) ELSE mid
    /\ out' = IF calls = <<>> THEN strip_header(input) ELSE strip_header(mid)
    /\ UNCHANGED <<input, bundleVars>>

NextStrip == CallStripYaml \/ CallStripHeader

SpecStrip == InitStrip /\ [][NextStrip]_vars

\* ------------------------------------------ properties of the strippers
\* Positions at which a line of the text starts.
LineStarts(t) ==
    IF t = <<>> THEN {}
    ELSE {1} \cup { i + 1 : i \in { j \in 1..(Len(t) - 1) : t[j] = NL } }

\* Position of the newline ending the line that starts at p (Len(t) + 1
\* when the line is not terminated).
LineEnd(t, p) ==
    IF \E j \in p..Len(t) : t[j] = NL
    THEN CHOOSE j \in p..Len(t) :
             /\ t[j] = NL
             /\ \A h \in p..(j - 1) : t[h] # NL
    ELSE Len(t) + 1

LineAt(t, p) == SubSeq(t, p, LineEnd(t, p) - 1)

\* The text after the line that starts at p and after its newline.
After(t, p) == SubSeq(t, LineEnd(t, p) + 1, Len(t))

DropFinalNL(t) ==
    IF t # <<>> /\ t[Len(t)] = NL THEN SubSeq(t, 1, Len(t) - 1) ELSE t

MinOf(S) == CHOOSE p \in S : \A q \in S : p <= q

IsBlankLine(t, p) == \A i \in p..(LineEnd(t, p) - 1) : IsSpace(t[i])

HeaderLines(t) == Cardinality({ p \in LineStarts(t) : t[p] = HDR })

\* Later lines that are the marker once surrounding blanks are ignored.
ClosingMarkers(t) ==
    { p \in LineStarts(t) \ {1} : strip(LineAt(t, p)) = <<DASHES>> }

\* The text opens with a closed metadata block, blanks around the markers
\* ignored.
HasFrontmatter(t) ==
    /\ t # <<>>
    /\ strip(LineAt(t, 1)) = <<DASHES>>
    /\ ClosingMarkers(t) # {}

\* Later lines that are exactly the marker.
ExactClosingMarkers(t) ==
    { p \in LineStarts(t) \ {1} : LineAt(t, p) = <<DASHES>> }

\* What C8 states of strip_yaml_frontmatter.
YamlAsClaimed(t) ==
    IF t # <<>> /\ LineAt(t, 1) = <<DASHES>> /\ ExactClosingMarkers(t) # {}
    THEN After(t, MinOf(ExactClosingMarkers(t)))
    ELSE t

\* What the code does: the markers are compared after trimming the line, the
\* newlines that open the rest are dropped and so is its final newline.
YamlAsAmended(t) ==
    IF HasFrontmatter(t)
    THEN lstripNL(DropFinalNL(After(t, MinOf(ClosingMarkers(t)))))
    ELSE t

NonBlankLines(t) == { p \in LineStarts(t) : ~IsBlankLine(t, p) }

\* Start of the first non-blank line after the line at p (Len(t) + 1 when
\* there is none).
NextNonBlank(t, p) ==
    LET later == { q \in NonBlankLines(t) : q > p }
    IN  IF later = {} THEN Len(t) + 1 ELSE MinOf(later)

\* What C7 states of strip_header.
HeaderAsClaimed(t) ==
    IF NonBlankLines(t) # {} /\ t[MinOf(NonBlankLines(t))] = HDR
    THEN LET p == MinOf(NonBlankLines(t))
         IN  SubSeq(t, 1, p - 1) \o SubSeq(t, NextNonBlank(t, p), Len(t))
    ELSE t

\* What the code does: only the very first line is looked at, and the rest
\* loses its final newline.
HeaderAsAmended(t) ==
    IF t # <<>> /\ t[1] = HDR
    THEN DropFinalNL(SubSeq(t, NextNonBlank(t, 1), Len(t)))
    ELSE t

\* The text handed to the n-th call and what the call returned.
CallIn(n) == IF n = 1 THEN input ELSE mid
CallOut(n) == IF n = 1 THEN mid ELSE out

\* C4 as stated: stripping is idempotent, strip(strip(t)) = strip(t) for
\* both strippers and every text.
C4_Idempotent ==
    (calls = <<"yaml", "yaml">> \/ calls = <<"header", "header">>) => out = mid

\* C4 as amended: a second application is a no-op exactly when the first
\* result does not itself open with a closed metadata block (frontmatter
\* stripper) or with a '## ' line (header stripper); otherwise the second
\* application strips once more.
C4_IdempotentUnlessRepeated ==
    /\ calls = <<"yaml", "yaml">> => (out = mid <=> ~HasFrontmatter(mid))
    /\ calls = <<"header", "header">> =>
           (out = mid <=> ~(mid # <<>> /\ mid[1] = HDR))

\* A text whose metadata block was stripped, stripped again to no effect.
C4_Witness ==
    /\ calls = <<"yaml", "yaml">>
    /\ HasFrontmatter(input)
    /\ mid # <<>>
    /\ out = mid

\* C7 as stated: the header is looked for on the first non-blank line, and
\* the result is the text without that line and the blank lines after it.
C7_HeaderFirstNonBlank ==
    \A n \in 1..Len(calls) :
        calls[n] = "header" => CallOut(n) = HeaderAsClaimed(CallIn(n))

\* C7 as amended: if the very first line starts with '## ', the result is
\* the lines after it, without the whitespace-only lines that directly
\* follow the header and without a final newline; in every other case (also
\* when only blank lines precede the header) the text is returned unchanged;
\* a header on a later line is never removed.
C7_HeaderFirstLine ==
    \A n \in 1..Len(calls) :
        calls[n] = "header" =>
            /\ CallOut(n) = HeaderAsAmended(CallIn(n))
            /\ HeaderLines(CallOut(n)) =
                   IF CallIn(n) # <<>> /\ CallIn(n)[1] = HDR
                   THEN HeaderLines(CallIn(n)) - 1
                   ELSE HeaderLines(CallIn(n))

\* A header and the blank lines after it were removed, a later header kept.
C7_Witness ==
    /\ calls = <<"header">>
    /\ input # <<>> /\ input[1] = HDR
    /\ NextNonBlank(input, 1) > LineEnd(input, 1) + 1
    /\ HeaderLines(mid) >= 1

\* C8 as stated: the block is stripped only when the first line is exactly
\* the marker, and the result is exactly the text after the closing marker.
C8_YamlExact ==
    \A n \in 1..Len(calls) :
        calls[n] = "yaml" => CallOut(n) = YamlAsClaimed(CallIn(n))

\* C8 as amended: if the first line is the marker once surrounding blanks
\* are ignored and a later line is too, the result is the text after the
\* first such later line, without the newlines that open it and without its
\* final newline; in every other case the text is returned unchanged.
C8_YamlTrimmed ==
    \A n \in 1..Len(calls) :
        calls[n] = "yaml" => CallOut(n) = YamlAsAmended(CallIn(n))

\* A block closed by a marker followed by a blank line and a body.
C8_Witness ==
    /\ calls = <<"yaml">>
    /\ HasFrontmatter(input)
    /\ After(input, MinOf(ClosingMarkers(input))) # <<>>
    /\ Head(After(input, MinOf(ClosingMarkers(input)))) = NL
    /\ mid # <<>>

\* ------------------------------------------------------ names and titles
\* ASCII codes of the names that occur.
GENERAL == <<103, 101, 110, 101, 114, 97, 108>>              \* "general"
MDC == <<46, 109, 100, 99>>                      \* ".mdc"
INSTRUCTIONS == <<46, 105, 110, 115, 116, 114, 117, 99, 116, 105, 111, 110, 115>>           \* ".instructions"
MD == <<46, 109, 100>>                        \* ".md"
COPILOT_GENERAL == <<99, 111, 112, 105, 108, 111, 116, 45, 105, 110, 115, 116, 114, 117, 99, 116, 105, 111, 110, 115, 46, 109, 100>>      \* "copilot-instructions.md"

EndsWith(name, suffix) ==
    /\ Len(name) >= Len(suffix)
    /\ SubSeq(name, Len(name) - Len(suffix) + 1, Len(name)) = suffix

\* Path.stem: the name without its last suffix.
Stem(name) ==
    LET dots == { i \in 2..Len(name) : name[i] = 46 }
    IN  IF dots = {} THEN name
        ELSE SubSeq(name, 1, (CHOOSE i \in dots : \A j \in dots : j <= i) - 1)

RECURSIVE Remove(_, _)
\* str.replace(sub, '')
Remove(name, sub) ==
    IF Len(name) < Len(sub) THEN name
    ELSE IF SubSeq(name, 1, Len(sub)) = sub
         THEN Remove(SubSeq(name, Len(sub) + 1, Len(name)), sub)
         ELSE <<Head(name)>> \o Remove(Tail(name), sub)

IsUpper(c) == 65 <= c /\ c <= 90
IsLower(c) == 97 <= c /\ c <= 122
IsLetter(c) == IsUpper(c) \/ IsLower(c)
Lower(c) == IF IsUpper(c) THEN c + 32 ELSE c
Upper(c) == IF IsLower(c) THEN c - 32 ELSE c

\* constants.py: header.lower().replace(' ', '-')
header_to_filename(header) ==
    [i \in 1..Len(header) |->
        IF header[i] = 32 THEN 45 ELSE Lower(header[i])]

\* constants.py: filename.replace('-', ' ').title()
filename_to_header(filename) ==
    LET spaced == [i \in 1..Len(filename) |->
                      IF filename[i] = 45 THEN 32 ELSE filename[i]]
    IN  [i \in 1..Len(spaced) |->
            IF IsLetter(spaced[i])
            THEN IF i = 1 \/ ~IsLetter(spaced[i - 1])
                 THEN Upper(spaced[i])
                 ELSE Lower(spaced[i])
            ELSE spaced[i]]

\* Python's comparison of two strings.
LexLess(a, b) ==
    \E i \in 1..(Len(a) + 1) :
        /\ \A h \in 1..(i - 1) : h <= Len(b) /\ a[h] = b[h]
        /\ \/ i > Len(a) /\ i <= Len(b)
           \/ i <= Len(a) /\ i <= Len(b) /\ a[i] < b[i]

RECURSIVE sorted_by_name(_)
\* sorted(file_dict.values(), key=lambda p: p.name)
sorted_by_name(files) ==
    IF files = {} THEN <<>>
    ELSE LET first == CHOOSE f \in files :
                          \A g \in files \ {f} : LexLess(f, g)
         IN  <<first>> \o sorted_by_name(files \ {first})

\* file_dict = {f.stem: f for f in file_list}
FileDict(file_list) ==
    [st \in { Stem(f) : f \in file_list } |->
        CHOOSE f \in file_list : Stem(f) = st]

RECURSIVE OrderLoopNoDel(_, _, _)
\* The loop of get_ordered_files without its del.
OrderLoopNoDel(section_keys, file_dict, acc) ==
    IF section_keys = <<>> THEN <<acc, file_dict>>
    ELSE LET filename == header_to_filename(Head(section_keys))
         IN  IF filename \in DOMAIN file_dict
             THEN OrderLoopNoDel(Tail(section_keys), file_dict,
                                 Append(acc, file_dict[filename]))
             ELSE OrderLoopNoDel(Tail(section_keys), file_dict, acc)

RECURSIVE OrderLoop(_, _, _)
\* for section_name in section_globs_keys: ... append, del
OrderLoop(section_keys, file_dict, acc) ==
    IF section_keys = <<>> THEN <<acc, file_dict>>
    ELSE LET filename == header_to_filename(Head(section_keys))
         IN  IF filename \in DOMAIN file_dict
             THEN OrderLoop(Tail(section_keys),
                            [st \in DOMAIN file_dict \ {filename} |->
                                file_dict[st]],
                            Append(acc, file_dict[filename]))
             ELSE OrderLoop(Tail(section_keys), file_dict, acc)

\* get_ordered_files keeping a matched file in file_dict.
get_ordered_files_nodel(file_list, section_globs_keys) ==
    LET r == OrderLoopNoDel(section_globs_keys, FileDict(file_list), <<>>)
    IN  r[1] \o sorted_by_name({ r[2][st] : st \in DOMAIN r[2] })

\* The files are given as a set: the order of the list that glob returns
\* is lost in file_dict, whose keys (the stems) are unique.
get_ordered_files(file_list, section_globs_keys) ==
    LET r == OrderLoop(section_globs_keys, FileDict(file_list), <<>>)
    IN  r[1] \o sorted_by_name({ r[2][st] : st \in DOMAIN r[2] })

\* Path(dir).glob("*" + suffix)
Glob(listing, suffix) == { f \in listing : EndsWith(f, suffix) }

\* bundle_cursor_rules with general appended instead of prepended.
CursorOrderGeneralLast(rule_files, section_globs_keys) ==
    LET general == { f \in rule_files : Stem(f) = GENERAL }
        others == { f \in rule_files : Stem(f) # GENERAL }
    IN  get_ordered_files(others, section_globs_keys) \o sorted_by_name(general)

\* bundle_cursor_rules: ordered = general + ordered_others
CursorOrder(rule_files, section_globs_keys) ==
    LET general == { f \in rule_files : Stem(f) = GENERAL }
        others == { f \in rule_files : Stem(f) # GENERAL }
    IN  sorted_by_name(general) \o get_ordered_files(others, section_globs_keys)

\* ------------------------------------------------------------- the bundler
\* What the output file holds: the writes made to it, in order.  A write is
\* the title line with its blank line ("## <header>\n\n"), a body, or the
\* blank separator ("\n\n"); file names the fragment the write was made for.
\* "old" is what the file held before the run.
Chunk(kind, file, title, text) ==
    [kind |-> kind, file |-> file, title |-> title, text |-> text]

OldContent == <<Chunk("old", <<>>, <<>>, <<>>)>>

\* The body of the write loop of bundle_cursor_rules for non-empty content.
CursorSection(rule_file, content) ==
    LET body == strip_header(strip_yaml_frontmatter(content))
        header == filename_to_header(Stem(rule_file))
    IN  (IF Stem(rule_file) # GENERAL
         THEN <<Chunk("title", rule_file, header, <<>>)>>
         ELSE <<>>)
        \o <<Chunk("body", rule_file, <<>>, body),
             Chunk("sep", rule_file, <<>>, <<>>)>>

\* The body of the write loop of bundle_github_instructions.
GithubSection(instr_file, content) ==
    LET body == strip_header(strip_yaml_frontmatter(content))
        header == filename_to_header(Remove(Stem(instr_file), INSTRUCTIONS))
    IN  <<Chunk("title", instr_file, header, <<>>),
          Chunk("body", instr_file, <<>>, body),
          Chunk("sep", instr_file, <<>>, <<>>)>>

\* --------------------------------------------------- the bundler's inputs
Ids == { GENERAL, <<97>>, <<97, 45, 98>>, <<98>> }      \* general, a, a-b, b
OtherFile == <<98, 46, 109, 100>>                           \* "b.md"
Headers == { <<66>>, <<65, 32, 66>>, <<97, 32, 98>> }          \* "B", "A B", "a b"
Modes == { "cursor", "github", "bogus" }

\* Contents of a fragment file: blank; metadata block, header and body;
\* metadata block alone; header alone.
Contents ==
    { <<SP, NL>>,
      <<DASHES, NL, BODY, NL, DASHES, NL, NL, HDR, NL, NL, BODY, NL>>,
      <<DASHES, NL, BODY, NL, DASHES, NL>>,
      <<HDR, NL>> }

\* Contents of .github/copilot-instructions.md.
GeneralContents == { <<NL>>, <<HDR, NL, BODY, NL>> }

Suffix(m) == IF m = "github" THEN INSTRUCTIONS \o MD ELSE MDC

Listings(m) ==
    IF m = "bogus" THEN { {} }
    ELSE SUBSET ({ id \o Suffix(m) : id \in Ids } \cup { OtherFile })

KeySeqs == UNION { [1..n -> Headers] : n \in 0..MaxKeys }

StripIdle ==
    /\ input = <<>>
    /\ mid = <<>>
    /\ out = <<>>
    /\ calls = <<>>

\* The process is started: its argument, the directory the mode selects,
\* SECTION_GLOBS, the optional general file and the output file are given.
Init ==
    /\ StripIdle
    /\ mode \in Modes
    /\ dir \in Listings(mode)
    /\ keys \in KeySeqs
    /\ generalFile \in (IF mode = "github" THEN BOOLEAN ELSE {FALSE})
    /\ outfile \in { <<>>, OldContent }
    /\ opened = FALSE
    /\ ordered = <<>>
    /\ k = 0
    /\ pc = "start"
    /\ printed = FALSE
    /\ readlog = <<>>

\* main: parser.parse_args() exits on a mode outside choices.
ParseArgs ==
    /\ pc = "start"
    /\ pc' = IF mode \in {"cursor", "github"} THEN "glob" ELSE "usage"
    /\ UNCHANGED <<stripVars, mode, dir, keys, generalFile, outfile, opened,
                   ordered, k, printed, readlog>>

\* The listing and the ordering that precede the with open(output_file).
GlobAndOrder ==
    /\ pc = "glob"
    /\ ordered' = IF mode = "cursor"
                  THEN CursorOrder(Glob(dir, MDC), keys)
                  ELSE get_ordered_files(Glob(dir, INSTRUCTIONS \o MD), keys)
    /\ pc' = "open"
    /\ UNCHANGED <<stripVars, mode, dir, keys, generalFile, outfile, opened,
                   k, printed, readlog>>

\* open(output_file, "w") truncates the file.
OpenOutput ==
    /\ pc = "open"
    /\ outfile' = <<>>
    /\ opened' = TRUE
    /\ k' = 1
    /\ pc' = IF mode = "github" THEN "general" ELSE "loop"
    /\ UNCHANGED <<stripVars, mode, dir, keys, generalFile, ordered, printed,
                   readlog>>

\* open(output_file, "w") raises.
OpenFail ==
    /\ pc = "open"
    /\ pc' = "crashed"
    /\ UNCHANGED <<stripVars, mode, dir, keys, generalFile, outfile, opened,
                   ordered, k, printed, readlog>>

\* bundle_github_instructions: copilot_general.exists() is false.
SkipGeneral ==
    /\ pc = "general"
    /\ ~generalFile
    /\ pc' = "loop"
    /\ UNCHANGED <<stripVars, mode, dir, keys, generalFile, outfile, opened,
                   ordered, k, printed, readlog>>

\* bundle_github_instructions: the general file is read and written.
WriteGeneral ==
    /\ pc = "general"
    /\ generalFile
    /\ \E raw \in GeneralContents :
           LET content == strip(raw)
           IN  /\ readlog' = Append(readlog,
                                    [file |-> COPILOT_GENERAL, raw |-> raw])
               /\ outfile' =
                      IF content = <<>> THEN outfile
                      ELSE outfile \o
                           <<Chunk("body", COPILOT_GENERAL, <<>>, content),
                             Chunk("sep", COPILOT_GENERAL, <<>>, <<>>)>>
    /\ pc' = "loop"
    /\ UNCHANGED <<stripVars, mode, dir, keys, generalFile, opened, ordered,
                   k, printed>>

\* copilot_general.read_text() raises.
GeneralFail ==
    /\ pc = "general"
    /\ generalFile
    /\ pc' = "crashed"
    /\ k' = 0
    /\ UNCHANGED <<stripVars, mode, dir, keys, generalFile, outfile, opened,
                   ordered, printed, readlog>>

\* One round of the write loop: the k-th file is read, and written unless
\* its trimmed content is empty.
ReadFragment ==
    /\ pc = "loop"
    /\ k <= Len(ordered)
    /\ \E raw \in Contents :
           LET content == strip(raw)
           IN  /\ readlog' = Append(readlog, [file |-> ordered[k], raw |-> raw])
               /\ outfile' =
                      IF content = <<>> THEN outfile
                      ELSE IF mode = "cursor"
                           THEN outfile \o CursorSection(ordered[k], content)
                           ELSE outfile \o GithubSection(ordered[k], content)
    /\ k' = k + 1
    /\ UNCHANGED <<stripVars, mode, dir, keys, generalFile, opened, ordered,
                   pc, printed>>

\* A failed read that is caught, the loop going on with the next file.
ReadFailCaught ==
    /\ pc = "loop"
    /\ k <= Len(ordered)
    /\ k' = k + 1
    /\ UNCHANGED <<stripVars, mode, dir, keys, generalFile, outfile, opened,
                   ordered, pc, printed, readlog>>

\* open(rule_file) or f.read() raises: nothing catches it, the with block
\* closes the output file and the process ends.
ReadFail ==
    /\ pc = "loop"
    /\ k <= Len(ordered)
    /\ pc' = "crashed"
    /\ UNCHANGED <<stripVars, mode, dir, keys, generalFile, outfile, opened,
                   ordered, k, printed, readlog>>

\* The loop is over: the output file is closed and the bundler returns.
CloseOutput ==
    /\ pc = "loop"
    /\ k > Len(ordered)
    /\ pc' = "print"
    /\ UNCHANGED <<stripVars, mode, dir, keys, generalFile, outfile, opened,
                   ordered, k, printed, readlog>>

\* main: print(f"Bundled {args.mode} rules into {args.output}")
PrintConfirmation ==
    /\ pc = "print"
    /\ printed' = TRUE
    /\ pc' = "done"
    /\ UNCHANGED <<stripVars, mode, dir, keys, generalFile, outfile, opened,
                   ordered, k, readlog>>

Next ==
    \/ ParseArgs
    \/ GlobAndOrder
    \/ OpenOutput
    \/ OpenFail
    \/ SkipGeneral
    \/ WriteGeneral
    \/ GeneralFail
    \/ ReadFragment
    \/ ReadFail
    \/ CloseOutput
    \/ PrintConfirmation

Spec == Init /\ [][Next]_vars

\* ------------------------------------------------ properties of the bundler
\* The identifier of a fragment: its file name without the suffix of the
\* mode (<id>.mdc, <id>.instructions.md).
Identifier(file) == SubSeq(file, 1, Len(file) - Len(Suffix(mode)))

\* The identifier is the filename form of an entry of the canonical sequence.
Matched(id) == \E n \in 1..Len(keys) : header_to_filename(keys[n]) = id

KeyIndex(id) ==
    MinOf({ n \in 1..Len(keys) : header_to_filename(keys[n]) = id })

IsGeneralRule(file) == Stem(file) = GENERAL

\* What get_ordered_files returned: ordered, without the general rule that
\* bundle_cursor_rules puts in front of it.
Fragments ==
    IF mode = "cursor"
    THEN SelectSeq(ordered, LAMBDA f : ~IsGeneralRule(f))
    ELSE ordered

Listed == pc \notin {"idle", "start", "usage", "glob"}

TitlesOf(file) ==
    { i \in 1..Len(outfile) :
        outfile[i].kind = "title" /\ outfile[i].file = file }

ChunksOf(file) ==
    { i \in 1..Len(outfile) :
        outfile[i].kind # "old" /\ outfile[i].file = file }

\* What is left of a file's content after the trim and the two strippers.
Stripped(raw) == strip_header(strip_yaml_frontmatter(strip(raw)))

\* The content read from a file, when it has been read.
WasRead(file) == \E n \in 1..Len(readlog) : readlog[n].file = file
RawOf(file) ==
    readlog[CHOOSE n \in 1..Len(readlog) : readlog[n].file = file].raw

\* C1: two emitted fragments whose identifiers both come from entries of
\* the canonical sequence are written in the order of those entries, in
\* mode cursor and in mode github.
C1_CanonicalOrder ==
    \A i, j \in 1..Len(outfile) :
        ( /\ i < j
          /\ outfile[i].kind = "title"
          /\ outfile[j].kind = "title"
          /\ Matched(Identifier(outfile[i].file))
          /\ Matched(Identifier(outfile[j].file)) )
        => KeyIndex(Identifier(outfile[i].file))
               < KeyIndex(Identifier(outfile[j].file))

\* C2: fragments absent from the canonical sequence come out of
\* get_ordered_files in the lexicographic order of their identifiers.
C2_RestByIdentifier ==
    Listed =>
        \A i, j \in 1..Len(Fragments) :
            ( /\ i < j
              /\ ~Matched(Identifier(Fragments[i]))
              /\ ~Matched(Identifier(Fragments[j])) )
            => LexLess(Identifier(Fragments[i]), Identifier(Fragments[j]))

\* C3: a fragment whose content is empty after the trim and the two
\* strippers gets no write at all, neither title nor body nor separator.
C3_EmptyAfterStripOmitted ==
    \A n \in 1..Len(readlog) :
        ( /\ readlog[n].file # COPILOT_GENERAL
          /\ Stripped(readlog[n].raw) = <<>> )
        => ChunksOf(readlog[n].file) = {}

\* C5: the general fragment is first and untitled.  No title is ever written
\* for the general rule or the general file, none of their writes follows a
\* write made for another fragment, and once a non-empty general fragment
\* has been read its body is the first write of the output.
C5_GeneralFirstUntitled ==
    LET IsGeneral(file) ==
            IF mode = "cursor" THEN IsGeneralRule(file)
            ELSE file = COPILOT_GENERAL
    IN  /\ \A i \in 1..Len(outfile) :
               (outfile[i].kind # "old" /\ IsGeneral(outfile[i].file))
               => /\ outfile[i].kind # "title"
                  /\ \A j \in 1..(i - 1) : IsGeneral(outfile[j].file)
        /\ \A n \in 1..Len(readlog) :
               (IsGeneral(readlog[n].file) /\ strip(readlog[n].raw) # <<>>)
               => /\ outfile # <<>>
                  /\ outfile[1].kind = "body"
                  /\ outfile[1].file = readlog[n].file
                  /\ outfile[1].text =
                         IF mode = "cursor" THEN Stripped(readlog[n].raw)
                         ELSE strip(readlog[n].raw)

\* A finished cursor run with a non-empty general rule and titled sections
\* after it.
C5_Witness ==
    /\ pc = "done"
    /\ mode = "cursor"
    /\ \E n \in 1..Len(readlog) :
           IsGeneralRule(readlog[n].file) /\ strip(readlog[n].raw) # <<>>
    /\ \E i \in 1..Len(outfile) : outfile[i].kind = "title"
    /\ keys # <<>>

\* C6: get_ordered_files places every fragment whose identifier matches an
\* entry of the canonical sequence before every fragment whose identifier
\* matches none, in both modes.
C6_MatchedBeforeRest ==
    Listed =>
        \A i, j \in 1..Len(Fragments) :
            ( /\ Matched(Identifier(Fragments[i]))
              /\ ~Matched(Identifier(Fragments[j])) )
            => i < j

\* The files the loop has to read: ordered, and before it the general file
\* in mode github when it exists.
ReadsBefore(n) ==
    (IF mode = "github" /\ generalFile THEN <<COPILOT_GENERAL>> ELSE <<>>)
    \o SubSeq(ordered, 1, n)

\* C9: an invalid mode is rejected before the output file is opened or any
\* file read; a failed read of the k-th fragment ends the run with the
\* output file truncated of its prior content and holding only writes for
\* the fragments before k, every one of which was read and none after, and
\* without the confirmation; the confirmation is printed only once the loop
\* has read every fragment.
C9_ErrorOutcome ==
    /\ mode \notin {"cursor", "github"}
           => ~opened /\ readlog = <<>> /\ ~printed /\ pc \in {"start", "usage"}
    /\ (pc = "crashed" /\ opened /\ k >= 1)
           => /\ ~printed
              /\ k <= Len(ordered)
              /\ [n \in 1..Len(readlog) |-> readlog[n].file] = ReadsBefore(k - 1)
              /\ \A i \in 1..Len(outfile) :
                     /\ outfile[i].kind # "old"
                     /\ \E n \in 1..Len(readlog) :
                            readlog[n].file = outfile[i].file
    /\ printed
           => /\ pc = "done"
              /\ k = Len(ordered) + 1
              /\ [n \in 1..Len(readlog) |-> readlog[n].file]
                     = ReadsBefore(Len(ordered))

\* The read of the second of three fragments failed after the first was
\* written.
C9_Witness ==
    /\ pc = "crashed"
    /\ opened
    /\ k = 2
    /\ Len(ordered) >= 3
    /\ outfile # <<>>

\* C10: get_ordered_files returns each file of its input exactly once, and
\* a finished run has written exactly one title for every listed fragment
\* other than the general rule whose trimmed content is non-empty, and no
\* title for anything else.
C10_ExactlyOnce ==
    LET listing == Glob(dir, Suffix(mode))
        titled == IF mode = "cursor"
                  THEN { f \in listing : ~IsGeneralRule(f) }
                  ELSE listing
    IN  /\ Listed =>
               /\ Len(ordered) = Cardinality(listing)
               /\ { ordered[n] : n \in 1..Len(ordered) } = listing
        /\ pc = "done" =>
               /\ \A f \in titled :
                      /\ WasRead(f)
                      /\ Cardinality(TitlesOf(f)) =
                             IF strip(RawOf(f)) # <<>> THEN 1 ELSE 0
               /\ \A i \in 1..Len(outfile) :
                      outfile[i].kind = "title" => outfile[i].file \in titled

\* A finished run whose canonical sequence names one file twice (two entries
\* with the same filename form), with a file written and a file skipped.
C10_Witness ==
    /\ pc = "done"
    /\ Len(keys) = 2
    /\ header_to_filename(keys[1]) = header_to_filename(keys[2])
    /\ \E n \in 1..Len(ordered) :
           Identifier(ordered[n]) = header_to_filename(keys[1])
    /\ \E i \in 1..Len(outfile) : outfile[i].kind = "title"
    /\ \E n \in 1..Len(readlog) : strip(readlog[n].raw) = <<>>

====
